---------------------------- MODULE Spec2Model ----------------------------
(***************************************************************************)
(* A model of tcmalloc's Span (src/tcmalloc/span.cc): the 16-bit index     *)
(* encoding of a span's free objects, the construction of the freelist,    *)
(* its batched consumption, the sampling bookkeeping and the               *)
(* fragmentation estimate.                                                 *)
(***************************************************************************)
EXTENDS Integers, Sequences, FiniteSets, TLC

(***************************************************************************)
(* Program constants, with the values the comments of span.cc give them.   *)
(***************************************************************************)
\* sizeof(ObjIdx): "Objects in the freelist are represented by 2-byte indices"
kObjIdxBytes == 2
\* "For small objects (<512) divider is 8, for larger -- 64"
kAlignmentShift == 3
kMultiPageAlignmentShift == 6
kMultiPageSize == 512
\* "a small array-based cache (4 objects) embedded directly into the Span"
kCacheSize == 4
\* "note that we have 256K pages and multi-page spans"
kPageShift == 18

kAlignment == 2 ^ kAlignmentShift
kMultiPageAlignment == 2 ^ kMultiPageAlignmentShift
kPageSize == 2 ^ kPageShift
\* ObjIdx is an unsigned 16-bit integer; kListEnd is ObjIdx(-1).
ObjIdxMod == 2 ^ (8 * kObjIdxBytes)
kListEnd == ObjIdxMod - 1

\* static_cast<ObjIdx>(x): truncation to the index width.
ToObjIdx(x) == x % ObjIdxMod

(***************************************************************************)
(* Bounds of the model and the inputs it enumerates.                       *)
(***************************************************************************)
\* Largest object count BuildFreelist is given for every size class.
MaxCount == 13
\* One larger count, given for the multi-page classes it is legal for: the
\* smallest count with which the chain of the class of size 576 has two
\* nodes.
LargeCount == 294
\* Largest batch size N given to FreelistPopBatch.
MaxBatch == 6
\* Largest number of pages of a span of a multi-page size class.
MaxPages == 2

\* Number of spans that are sampled and unsampled.
NumSpans == 3
\* Number of threads that call Sample and Unsample.
NumThreads == 2
\* A span of LargestSpanPages pages that at most MaxWideCount objects fit is
\* built with the counts from WideWindow below the number that fit.
WideWindow == 3
MaxWideCount == 64
\* Largest number of pages of a span whose index conversions are checked:
\* with 16 pages the indices of a span of 64-byte-aligned objects reach the
\* 16-bit limit.
LargestSpanPages == 16

\* The size map (SizeMap::class_to_size): class 0 is "no class".
ClassSizes == <<8, 16, 512, 576, 65536, 98304>>
NumClasses == Len(ClassSizes)
class_to_size(cl) == ClassSizes[cl]
\* First pages a span is given.
Pages == {1, 3}

\* What a read of a 16-bit cell that was never written yields: a value no
\* index and no link can have, so that every property that depends on such
\* a read fails.
Poison == 0 - 1

Min(a, b) == IF a < b THEN a ELSE b

VARIABLES
  first_page_,      \* Span::first_page_ (a page id)
  num_pages_,       \* Span::num_pages_
  sizeclass,        \* Static::pagemap().sizeclass(first_page_)
  allocated_,       \* Span::allocated_
  freelist_,        \* Span::freelist_
  embed_count_,     \* Span::embed_count_
  cache_,           \* Span::cache_ : [0..kCacheSize-1 -> ObjIdx]
  cache_size_,      \* Span::cache_size_
  mem,              \* the 16-bit cells of the span's objects that were written
  pc,               \* "new" | "built" | "crashed" (freelist / fragmentation part)
  debugBuild,       \* TRUE iff ASSERT is compiled in (NDEBUG not defined)
  lastOp,           \* the operation that produced this state
  bsize, bcount,    \* the arguments BuildFreelist was given
  popN, popResult,  \* the last FreelistPopBatch: N and the returned count
  batch,            \* the last FreelistPopBatch: batch[0..result-1]
  handed,           \* every pointer FreelistPopBatch has returned, in order
  fragResult,       \* what the last Fragmentation() returned
  idxIn, ptrMid, idxOut, cpc,  \* the index conversion under study
  sampled_,              \* Span::sampled_ of every span
  sampled_stack_,        \* Span::sampled_stack_ of every span (0 is nullptr)
  sampled_objects_,      \* Static::sampled_objects_, head first
  sampled_objects_size_, \* Static::sampled_objects_size_
  sOp,                   \* the last Sample or Unsample call and what it returned
  freelist_added_time_,  \* Span::freelist_added_time_ of this span
  other,                 \* the span passed to AverageFreelistAddedTime
  aOp,                   \* the last AverageFreelistAddedTime call: the values before it
  pageheap_lock,         \* the thread that holds pageheap_lock (0: nobody)
  thr,                   \* every thread's position in its Sample or Unsample call
  size0                  \* sampled_objects_size_ before the first call

spanVars == <<first_page_, num_pages_, sizeclass, allocated_, freelist_,
              embed_count_, cache_, cache_size_, mem>>
flVars == <<pc, debugBuild, lastOp, bsize, bcount, popN, popResult, batch,
            handed, fragResult>>
convVars == <<idxIn, ptrMid, idxOut, cpc>>
sampleVars == <<sampled_, sampled_stack_, sampled_objects_,
                sampled_objects_size_, sOp>>
ageVars == <<freelist_added_time_, other, aOp>>
lockVars == <<pageheap_lock, thr, size0>>
vars == <<spanVars, flVars, convVars, sampleVars, ageVars, lockVars>>

(***************************************************************************)
(* Index <-> address conversion.                                           *)
(***************************************************************************)
\* PageId::start_uintptr()
start_uintptr(page) == page * kPageSize

\* The mutant of PtrToIdx: the small mode forgets the page mask.
PtrToIdxNoMask(page, ptr, size) ==
  IF size <= kMultiPageSize
    THEN ToObjIdx(ptr \div kAlignment)
    ELSE ToObjIdx((ptr - start_uintptr(page)) \div kMultiPageAlignment)

\* Span::PtrToIdx(ptr, size) of the span whose first page is `page`.
\* p & (kPageSize - 1) is p % kPageSize, kPageSize being a power of two.
PtrToIdx(page, ptr, size) ==
  IF size <= kMultiPageSize
    THEN ToObjIdx((ptr % kPageSize) \div kAlignment)
    ELSE ToObjIdx((ptr - start_uintptr(page)) \div kMultiPageAlignment)

\* The mutant of IdxShift: the size kMultiPageSize itself is given the
\* large mode, which BuildFreelist gives to the sizes above it.
IdxShiftStrict(size) ==
  IF size < kMultiPageSize THEN kAlignmentShift ELSE kMultiPageAlignmentShift

\* The shift IdxToPtr applies.
IdxShift(size) ==
  IF size <= kMultiPageSize THEN kAlignmentShift ELSE kMultiPageAlignmentShift

\* Span::IdxToPtr(idx, size): idx << shift is idx * 2^shift in uintptr_t.
IdxToPtr(page, idx, size) == start_uintptr(page) + idx * (2 ^ IdxShift(size))

(***************************************************************************)
(* Object memory: the 16-bit cells BuildFreelist writes into free objects. *)
(***************************************************************************)
\* host[j] of an ObjIdx* host: the cell at byte address host + j * sizeof(ObjIdx).
HostSlot(host, j) == host + j * kObjIdxBytes
Load(m, a) == IF a \in DOMAIN m THEN m[a] ELSE Poison
\* f @@ g takes f's value where both are defined.
Store(m, a, v) == (a :> v) @@ m

(***************************************************************************)
(* Span::BuildFreelist.                                                    *)
(***************************************************************************)
\* The mutant of IdxStep: the override for the large mode is missing.
IdxStepSmallOnly(size) == ToObjIdx(size \div kAlignment)

\* ObjIdx idxStep = size / kAlignment; if (size > kMultiPageSize) idxStep = ...
IdxStep(size) ==
  IF size > kMultiPageSize
    THEN ToObjIdx(size \div kMultiPageAlignment)
    ELSE ToObjIdx(size \div kAlignment)

\* The mutant of MaxEmbed: the slot of the forward link is not set aside.
MaxEmbedNoLink(size) == size \div kObjIdxBytes

\* const size_t max_embed = size / sizeof(ObjIdx) - 1
MaxEmbed(size) == size \div kObjIdxBytes - 1

\* "First, push as much as we can into the cache_": the for loop, on
\* st = [idx, cache, cache_size].
RECURSIVE FillCache(_, _, _)
FillCache(st, idxEnd, idxStep) ==
  IF st.idx < idxEnd /\ st.cache_size < kCacheSize
    THEN FillCache([idx |-> ToObjIdx(st.idx + idxStep),
                    cache |-> [st.cache EXCEPT ![st.cache_size] = st.idx],
                    cache_size |-> st.cache_size + 1],
                   idxEnd, idxStep)
    ELSE st

\* The mutant of PushEmbedded: the entry is stored before idxEnd is lowered.
PushEmbeddedStale(st, idxStep) ==
  LET e == st.embed_count + 1
  IN  [st EXCEPT !.embed_count = e,
                 !.mem = Store(st.mem, HostSlot(st.host, e), st.idxEnd),
                 !.idxEnd = ToObjIdx(st.idxEnd - idxStep)]

\* The mutant of PushEmbedded: the embedded entry is taken from the low end
\* of the remaining range, as the chain nodes are.
PushEmbeddedLowEnd(st, idxStep) ==
  LET e == st.embed_count + 1
  IN  [st EXCEPT !.embed_count = e,
                 !.mem = Store(st.mem, HostSlot(st.host, e), st.idx),
                 !.idx = ToObjIdx(st.idx + idxStep)]

\* "Push onto first object on the freelist": the then-branch of the while
\* loop, on st = [idx, idxEnd, host, embed_count, freelist, mem].
PushEmbedded(st, idxStep) ==
  LET e == st.embed_count + 1
      end == ToObjIdx(st.idxEnd - idxStep)
  IN  [st EXCEPT !.embed_count = e,
                 !.idxEnd = end,
                 !.mem = Store(st.mem, HostSlot(st.host, e), end)]

\* The mutant of NewHost: freelist_ = idx is done before host[0] = freelist_.
NewHostSelfLink(st, page, size, idxStep) ==
  LET h == IdxToPtr(page, st.idx, size)
  IN  [st EXCEPT !.host = h,
                 !.freelist = st.idx,
                 !.mem = Store(st.mem, HostSlot(h, 0), st.idx),
                 !.embed_count = 0,
                 !.idx = ToObjIdx(st.idx + idxStep)]

\* "The first object is full, push new object onto freelist": the else-branch.
NewHost(st, page, size, idxStep) ==
  LET h == IdxToPtr(page, st.idx, size)
  IN  [st EXCEPT !.host = h,
                 !.mem = Store(st.mem, HostSlot(h, 0), st.freelist),
                 !.freelist = st.idx,
                 !.embed_count = 0,
                 !.idx = ToObjIdx(st.idx + idxStep)]

\* The mutant of ChainStep: a new host is pushed when the first object has
\* one free slot left.
ChainStepEarlyHost(st, page, size, idxStep, max_embed) ==
  IF st.idx < st.idxEnd
    THEN IF st.host # 0 /\ st.embed_count + 1 < max_embed
           THEN PushEmbedded(st, idxStep)
           ELSE NewHost(st, page, size, idxStep)
    ELSE st

\* One evaluation of the while loop's condition and, when it holds, of its
\* body; host = 0 is nullptr.
ChainStep(st, page, size, idxStep, max_embed) ==
  IF st.idx < st.idxEnd
    THEN IF st.host # 0 /\ st.embed_count # max_embed
           THEN PushEmbedded(st, idxStep)
           ELSE NewHost(st, page, size, idxStep)
    ELSE st

\* The while loop, as at most n evaluations of its condition and body: the
\* first half of them, and the second half unless the loop has ended. Every
\* iteration takes one index out of [idx, idxEnd), so count of them end the
\* loop. (Halving n keeps the depth of the recursion logarithmic.)
RECURSIVE BuildChain(_, _, _, _, _, _)
BuildChain(st, page, size, idxStep, max_embed, n) ==
  IF n <= 1
    THEN ChainStep(st, page, size, idxStep, max_embed)
    ELSE LET half == BuildChain(st, page, size, idxStep, max_embed, n \div 2)
         IN  IF half.idx < half.idxEnd
               THEN BuildChain(half, page, size, idxStep, max_embed,
                               n - n \div 2)
               ELSE half

\* The mutant of BuildFreelist: allocated_ = 0 is missing.
BuildFreelistNoReset(page, size, count, sp) ==
  LET idxStep == IdxStep(size)
      idxEnd == ToObjIdx(count * idxStep)
      c == FillCache([idx |-> 0, cache |-> sp.cache, cache_size |-> 0],
                     idxEnd, idxStep)
      f == BuildChain([idx |-> c.idx, idxEnd |-> idxEnd, host |-> 0,
                       embed_count |-> 0, freelist |-> kListEnd,
                       mem |-> sp.mem],
                      page, size, idxStep, MaxEmbed(size), count)
  IN  [allocated |-> sp.allocated, freelist |-> f.freelist, cache |-> c.cache,
       cache_size |-> c.cache_size, embed_count |-> f.embed_count,
       mem |-> f.mem]

\* Span::BuildFreelist(size, count) on the span whose first page is `page`
\* and whose fields are sp = [allocated, freelist, embed_count, cache,
\* cache_size, mem]: the fields it leaves.
BuildFreelist(page, size, count, sp) ==
  LET idxStep == IdxStep(size)
      idxEnd == ToObjIdx(count * idxStep)
      c == FillCache([idx |-> 0, cache |-> sp.cache, cache_size |-> 0],
                     idxEnd, idxStep)
      f == BuildChain([idx |-> c.idx, idxEnd |-> idxEnd, host |-> 0,
                       embed_count |-> 0, freelist |-> kListEnd,
                       mem |-> sp.mem],
                      page, size, idxStep, MaxEmbed(size), count)
  IN  [allocated |-> 0, freelist |-> f.freelist, cache |-> c.cache,
       cache_size |-> c.cache_size, embed_count |-> f.embed_count,
       mem |-> f.mem]

(***************************************************************************)
(* Span::FreelistPopBatch.                                                 *)
(***************************************************************************)
\* IdxToPtrSized<align>(idx, size): the shift is fixed by the mode.
IdxToPtrSized(page, align, idx) ==
  start_uintptr(page)
    + idx * (2 ^ (IF align = "SMALL" THEN kAlignmentShift
                                     ELSE kMultiPageAlignmentShift))

\* The chain part of FreelistPopBatchSized, one object at a time, on
\* st = [freelist, embed_count, batch]: embedded entries of the head node
\* first, then the head node itself, whose forward link becomes the head
\* and is taken to be full.
RECURSIVE PopChain(_, _, _, _, _, _)
PopChain(st, page, align, N, max_embed, m) ==
  IF Len(st.batch) >= N \/ st.freelist = kListEnd
    THEN st
    ELSE LET host == IdxToPtrSized(page, align, st.freelist)
         IN  IF st.embed_count > 0
               THEN PopChain(
                      [st EXCEPT
                         !.batch = Append(@, IdxToPtrSized(page, align,
                                      Load(m, HostSlot(host, st.embed_count)))),
                         !.embed_count = @ - 1],
                      page, align, N, max_embed, m)
               ELSE PopChain(
                      [st EXCEPT
                         !.batch = Append(@, host),
                         !.freelist = Load(m, HostSlot(host, 0)),
                         !.embed_count = max_embed],
                      page, align, N, max_embed, m)

\* FreelistPopBatchSized<align>(batch, N, size) on the span fields sp =
\* [allocated, freelist, embed_count, cache, cache_size, mem]: the fields it
\* leaves and the batch it fills.
FreelistPopBatchSized(page, align, N, size, sp) ==
  LET reads == Min(sp.cache_size, N)
      fromCache == [r \in 1..reads |->
                      IdxToPtrSized(page, align, sp.cache[sp.cache_size - r])]
      f == PopChain([freelist |-> sp.freelist,
                     embed_count |-> sp.embed_count,
                     batch |-> fromCache],
                    page, align, N, MaxEmbed(size), sp.mem)
  IN  [allocated |-> sp.allocated + Len(f.batch),
       freelist |-> f.freelist,
       embed_count |-> f.embed_count,
       cache |-> sp.cache,
       cache_size |-> sp.cache_size - reads,
       mem |-> sp.mem,
       batch |-> f.batch]

\* The mutant of FreelistPopBatch: the large mode is forgotten.
FreelistPopBatchAllSmall(page, N, size, sp) ==
  FreelistPopBatchSized(page, "SMALL", N, size, sp)

\* The mutant of FreelistPopBatch: the two modes are swapped.
FreelistPopBatchSwapped(page, N, size, sp) ==
  IF size <= kMultiPageSize
    THEN FreelistPopBatchSized(page, "LARGE", N, size, sp)
    ELSE FreelistPopBatchSized(page, "SMALL", N, size, sp)

\* Span::FreelistPopBatch(batch, N, size)
FreelistPopBatch(page, N, size, sp) ==
  IF size <= kMultiPageSize
    THEN FreelistPopBatchSized(page, "SMALL", N, size, sp)
    ELSE FreelistPopBatchSized(page, "LARGE", N, size, sp)

(***************************************************************************)
(* Span::Fragmentation.                                                    *)
(***************************************************************************)
RECURSIVE Gcd(_, _)
Gcd(a, b) == IF b = 0 THEN a ELSE Gcd(b, a % b)
\* static_cast<double>(n) / d for d > 0, as the rational in lowest terms: the
\* double is the correctly rounded value of that rational, so two results
\* are the same double when they are the same rational.
Ratio(n, d) == [num |-> n \div Gcd(n, d), den |-> d \div Gcd(n, d)]
Zero == [num |-> 0, den |-> 1]
NoValue == [num |-> 0, den |-> 0]

\* Span::bytes_in_span()
bytes_in_span(npages) == npages * kPageSize

\* The mutant of Fragmentation: the division is done on the integers.
FragmentationIntDiv(cl, npages, live, debug) ==
  IF cl = 0 \/ live = 0
    THEN IF debug THEN [outcome |-> "check_failed", value |-> NoValue]
                  ELSE [outcome |-> "returned", value |-> Zero]
    ELSE [outcome |-> "returned",
          value |-> Ratio(((bytes_in_span(npages) \div class_to_size(cl)) - live)
                            \div live, 1)]

\* The mutant of Fragmentation: the guard on live == 0 is missing.
FragmentationNoLiveGuard(cl, npages, live, debug) ==
  IF cl = 0
    THEN IF debug THEN [outcome |-> "check_failed", value |-> NoValue]
                  ELSE [outcome |-> "returned", value |-> Zero]
    ELSE IF live = 0
           THEN [outcome |-> "returned", value |-> [num |-> 1, den |-> 0]]
           ELSE [outcome |-> "returned",
                 value |-> Ratio((bytes_in_span(npages) \div class_to_size(cl))
                                   - live, live)]

\* Span::Fragmentation() of a span of npages pages whose first page has size
\* class cl and whose allocated_ is live. ASSERT(c) aborts when c is false
\* and the build is a debug build, and is nothing otherwise.
Fragmentation(cl, npages, live, debug) ==
  IF cl = 0
    THEN IF debug THEN [outcome |-> "check_failed", value |-> NoValue]
                  ELSE [outcome |-> "returned", value |-> Zero]
    ELSE LET obj_size == class_to_size(cl)
             span_objects == bytes_in_span(npages) \div obj_size
         IN  IF live = 0
               THEN IF debug
                      THEN [outcome |-> "check_failed", value |-> NoValue]
                      ELSE [outcome |-> "returned", value |-> Zero]
               ELSE [outcome |-> "returned",
                     value |-> Ratio(span_objects - live, live)]

(***************************************************************************)
(* The span's life: construction, BuildFreelist, then FreelistPopBatch     *)
(* and Fragmentation in any order.                                         *)
(***************************************************************************)
NoFrag == [outcome |-> "none", value |-> NoValue]
EmptyMem == [a \in {} |-> 0]

\* The mutant of LegalCount: ASSERT(count * idxStep < kListEnd) is missing.
LegalCountNoAssert(size, npages, count) ==
  /\ count >= 1
  /\ count * size <= bytes_in_span(npages)

\* The (size, count) BuildFreelist accepts for a span of npages pages: the
\* objects fit the span, and ASSERT(count * idxStep < kListEnd) holds.
LegalCount(size, npages, count) ==
  /\ count >= 1
  /\ count * size <= bytes_in_span(npages)
  /\ count * IdxStep(size) < kListEnd
BuildCounts(size, npages) ==
  {c \in (1..MaxCount) \cup (IF size > kMultiPageSize THEN {LargeCount} ELSE {}) :
     LegalCount(size, npages, c)}
\* The batch sizes FreelistPopBatch is given.
BatchSizes == {1, 3, MaxBatch}

\* What the fields BuildFreelist sets hold before it. The span's
\* initialisation is not part of span.cc and BuildFreelist assigns every
\* one of them itself, so they hold zeros or what an earlier use left.
FieldsBefore ==
  {[allocated |-> 0, freelist |-> 0, embed_count |-> 0, cache_size |-> 0,
    cache |-> [i \in 0..(kCacheSize - 1) |-> 0]],
   [allocated |-> 7, freelist |-> 3, embed_count |-> 2, cache_size |-> 1,
    cache |-> [i \in 0..(kCacheSize - 1) |-> 5]]}

\* A span as the page heap hands it out; spans of the classes up to
\* kMultiPageSize have one page.
SpanInit ==
  /\ first_page_ \in Pages
  /\ sizeclass \in 0..NumClasses
  /\ num_pages_ \in 1..MaxPages
  /\ (sizeclass # 0 /\ class_to_size(sizeclass) <= kMultiPageSize)
       => num_pages_ = 1
  /\ \E f \in FieldsBefore :
       /\ allocated_ = f.allocated
       /\ freelist_ = f.freelist
       /\ embed_count_ = f.embed_count
       /\ cache_ = f.cache
       /\ cache_size_ = f.cache_size
  /\ mem = EmptyMem

ConvOff == idxIn = 0 /\ ptrMid = 0 /\ idxOut = 0 /\ cpc = "off"

Spans == 1..NumSpans
NoCall == [op |-> "none", span |-> 0, stack |-> 0, ret |-> 0, before |-> 0]
\* No span is sampled.
SampleOff ==
  /\ sampled_ = [s \in Spans |-> 0]
  /\ sampled_stack_ = [s \in Spans |-> 0]
  /\ sampled_objects_ = <<>>
  /\ sampled_objects_size_ = 0
  /\ sOp = NoCall

\* No AverageFreelistAddedTime is under study.
NoMerge == [op |-> "none", t |-> 0, n |-> 0, ot |-> 0, on |-> 0]
AgeOff ==
  /\ freelist_added_time_ = 0
  /\ other = [freelist_added_time |-> 0, num_pages |-> 1]
  /\ aOp = NoMerge

\* The threads that call Sample and Unsample; none is in a call.
Threads == 1..NumThreads
Idle == [pc |-> "idle", span |-> 0, stack |-> 0, value |-> 0]
LockOff ==
  /\ pageheap_lock = 0
  /\ thr = [t \in Threads |-> Idle]
  /\ size0 = 0

InitWith(builds) ==
  /\ SpanInit
  /\ pc = "new"
  /\ debugBuild \in builds
  /\ lastOp = "none"
  /\ bsize = 0 /\ bcount = 0
  /\ popN = 0 /\ popResult = 0 /\ batch = <<>>
  /\ handed = <<>>
  /\ fragResult = NoFrag
  /\ ConvOff
  /\ SampleOff
  /\ AgeOff
  /\ LockOff

SpanFields ==
  [allocated |-> allocated_, freelist |-> freelist_,
   embed_count |-> embed_count_, cache |-> cache_,
   cache_size |-> cache_size_, mem |-> mem]

\* No ASSERT of BuildFreelist, IdxToPtr and PtrToIdx fails on the inputs
\* below, so the two builds do not differ but in Fragmentation.
Init == InitWith({FALSE})

\* CentralFreeList builds the span for the size of its class, with one of
\* the counts `counts`.
BuildOf(counts) ==
  /\ pc = "new"
  /\ sizeclass # 0
  /\ \E count \in counts :
       LET size == class_to_size(sizeclass)
           r == BuildFreelist(first_page_, size, count, SpanFields)
       IN  /\ allocated_' = r.allocated
           /\ freelist_' = r.freelist
           /\ embed_count_' = r.embed_count
           /\ cache_' = r.cache
           /\ cache_size_' = r.cache_size
           /\ mem' = r.mem
           /\ bsize' = size
           /\ bcount' = count
  /\ pc' = "built"
  /\ lastOp' = "Build"
  /\ popN' = 0 /\ popResult' = 0 /\ batch' = <<>>
  /\ fragResult' = NoFrag
  /\ UNCHANGED <<first_page_, num_pages_, sizeclass, debugBuild, handed,
                 convVars, sampleVars, ageVars, lockVars>>

Build == BuildOf(BuildCounts(class_to_size(sizeclass), num_pages_))

Pop ==
  /\ pc = "built"
  /\ \E N \in BatchSizes :
       LET r == FreelistPopBatch(first_page_, N, bsize, SpanFields)
       IN  /\ allocated_' = r.allocated
           /\ freelist_' = r.freelist
           /\ embed_count_' = r.embed_count
           /\ cache_' = r.cache
           /\ cache_size_' = r.cache_size
           /\ mem' = r.mem
           /\ popN' = N
           /\ popResult' = Len(r.batch)
           /\ batch' = r.batch
           /\ handed' = handed \o r.batch
  /\ lastOp' = "Pop"
  /\ fragResult' = NoFrag
  /\ UNCHANGED <<first_page_, num_pages_, sizeclass, pc, debugBuild, bsize,
                 bcount, convVars, sampleVars, ageVars, lockVars>>

\* Fragmentation is asked of spans that hold objects: built spans, and the
\* spans of large allocations, which have no size class.
FragmentationCall ==
  /\ pc = "built" \/ (pc = "new" /\ sizeclass = 0)
  /\ LET r == Fragmentation(sizeclass, num_pages_, allocated_, debugBuild)
     IN  /\ fragResult' = r
         /\ pc' = IF r.outcome = "check_failed" THEN "crashed" ELSE pc
  /\ lastOp' = "Fragmentation"
  /\ popN' = 0 /\ popResult' = 0 /\ batch' = <<>>
  /\ UNCHANGED <<spanVars, debugBuild, bsize, bcount, handed, convVars,
                 sampleVars, ageVars, lockVars>>

Next == Build \/ Pop

Spec == Init /\ [][Next]_vars

\* Fragmentation, in both builds, of spans built with the counts up to
\* MaxCount.
InitFrag == InitWith(BOOLEAN)
BuildFew ==
  BuildOf({c \in 1..MaxCount :
            LegalCount(class_to_size(sizeclass), num_pages_, c)})
NextFrag == BuildFew \/ Pop \/ FragmentationCall
SpecFrag == InitFrag /\ [][NextFrag]_vars

(***************************************************************************)
(* Span::Sample and Span::Unsample, on the shared state S = [sampled,      *)
(* stack, list, size]: every span's sampled_ and sampled_stack_,           *)
(* Static::sampled_objects_ and Static::sampled_objects_size_. Both run    *)
(* under pageheap_lock ("writes to sampled_objects_size_ guarded by        *)
(* pageheap_lock"), so each call is one step.                              *)
(***************************************************************************)
\* The stack records callers pass to Sample, by their number; 0 is nullptr.
StackRecords ==
  <<[weight |-> 16, requested_size |-> 7, allocated_size |-> 8],
    [weight |-> 100, requested_size |-> 20, allocated_size |-> 24],
    [weight |-> 3, requested_size |-> 1000, allocated_size |-> 1024]>>
Stacks == 1..Len(StackRecords)

\* AllocatedBytes(stack, /*unsample=*/true): the sampled allocation's weight
\* scaled by allocated_size / (requested_size + 1), a double.
AllocatedBytes(st) ==
  Ratio(StackRecords[st].weight * StackRecords[st].allocated_size,
        StackRecords[st].requested_size + 1)
\* static_cast<StatsCounter::Value>(d) of a double d >= 0: truncation.
ToValue(d) == d.num \div d.den

\* LossyAdd(val): value_.store(value_.load() + val), with no other writer
\* between the load and the store.
LossyAdd(value, val) == value + val
\* TList::prepend(span)
Prepend(list, s) == <<s>> \o list
\* Span::RemoveFromList(): unlinks the span, the other members keep their
\* order.
RemoveFromList(list, s) == SelectSeq(list, LAMBDA x : x # s)

\* The mutant of Sample: the byte estimate is not the one Unsample
\* subtracts (AllocatedBytes(*stack, false): the allocated size alone).
SampleOtherEstimate(s, st, S) ==
  [sampled |-> [S.sampled EXCEPT ![s] = 1],
   stack |-> [S.stack EXCEPT ![s] = st],
   list |-> Prepend(S.list, s),
   size |-> LossyAdd(S.size, StackRecords[st].allocated_size)]

\* Span::Sample(stack) of span s.
Sample(s, st, S) ==
  [sampled |-> [S.sampled EXCEPT ![s] = 1],
   stack |-> [S.stack EXCEPT ![s] = st],
   list |-> Prepend(S.list, s),
   size |-> LossyAdd(S.size, ToValue(AllocatedBytes(st)))]

\* The mutant of Unsample: the negation of the byte estimate is missing.
UnsampleNoNegation(s, S) ==
  IF S.sampled[s] = 0
    THEN [S EXCEPT !.ret = 0]
    ELSE [sampled |-> [S.sampled EXCEPT ![s] = 0],
          stack |-> [S.stack EXCEPT ![s] = 0],
          list |-> RemoveFromList(S.list, s),
          size |-> LossyAdd(S.size, ToValue(AllocatedBytes(S.stack[s]))),
          ret |-> S.stack[s]]

\* The mutant of Unsample: the test of sampled_ is missing, and the byte
\* estimate read through the null stack pointer (one byte, say) is
\* subtracted.
UnsampleNoGuard(s, S) ==
  [sampled |-> [S.sampled EXCEPT ![s] = 0],
   stack |-> [S.stack EXCEPT ![s] = 0],
   list |-> RemoveFromList(S.list, s),
   size |-> LossyAdd(S.size, 0 - (IF S.stack[s] = 0 THEN 1
                                   ELSE ToValue(AllocatedBytes(S.stack[s])))),
   ret |-> S.stack[s]]

\* The mutant of Unsample: sampled_stack_ = nullptr is missing.
UnsampleKeepStack(s, S) ==
  IF S.sampled[s] = 0
    THEN [S EXCEPT !.ret = 0]
    ELSE [sampled |-> [S.sampled EXCEPT ![s] = 0],
          stack |-> S.stack,
          list |-> RemoveFromList(S.list, s),
          size |-> LossyAdd(S.size, 0 - ToValue(AllocatedBytes(S.stack[s]))),
          ret |-> S.stack[s]]

\* Span::Unsample() of span s: the shared state it leaves, and in ret what
\* it returns. S has a ret field, which is not read.
Unsample(s, S) ==
  IF S.sampled[s] = 0
    THEN [S EXCEPT !.ret = 0]
    ELSE [sampled |-> [S.sampled EXCEPT ![s] = 0],
          stack |-> [S.stack EXCEPT ![s] = 0],
          list |-> RemoveFromList(S.list, s),
          size |-> LossyAdd(S.size, 0 - ToValue(AllocatedBytes(S.stack[s]))),
          ret |-> S.stack[s]]

InitSample ==
  /\ first_page_ = 1 /\ num_pages_ = 1 /\ sizeclass = 0
  /\ allocated_ = 0 /\ freelist_ = 0 /\ embed_count_ = 0
  /\ cache_ = [i \in 0..(kCacheSize - 1) |-> 0]
  /\ cache_size_ = 0
  /\ mem = EmptyMem
  /\ pc = "new" /\ debugBuild = FALSE /\ lastOp = "none"
  /\ bsize = 0 /\ bcount = 0
  /\ popN = 0 /\ popResult = 0 /\ batch = <<>> /\ handed = <<>>
  /\ fragResult = NoFrag
  /\ ConvOff
  /\ SampleOff
  /\ AgeOff
  /\ LockOff

Shared ==
  [sampled |-> sampled_, stack |-> sampled_stack_, list |-> sampled_objects_,
   size |-> sampled_objects_size_, ret |-> 0]

\* Sample is called on a span that is not sampled (ASSERT(!sampled_ &&
\* stack)), with a stack record no span holds.
SampleCall ==
  \E s \in Spans, st \in Stacks :
    /\ sampled_[s] = 0
    /\ \A t \in Spans : sampled_stack_[t] # st
    /\ LET r == Sample(s, st, Shared)
       IN  /\ sampled_' = r.sampled
           /\ sampled_stack_' = r.stack
           /\ sampled_objects_' = r.list
           /\ sampled_objects_size_' = r.size
    /\ sOp' = [op |-> "Sample", span |-> s, stack |-> st, ret |-> 0,
               before |-> sampled_objects_size_]
    /\ UNCHANGED <<spanVars, flVars, convVars, ageVars, lockVars>>

UnsampleCall ==
  \E s \in Spans :
    /\ LET r == Unsample(s, Shared)
       IN  /\ sampled_' = r.sampled
           /\ sampled_stack_' = r.stack
           /\ sampled_objects_' = r.list
           /\ sampled_objects_size_' = r.size
           /\ sOp' = [op |-> "Unsample", span |-> s, stack |-> 0,
                      ret |-> r.ret, before |-> sampled_objects_size_]
    /\ UNCHANGED <<spanVars, flVars, convVars, ageVars, lockVars>>

NextSample == SampleCall \/ UnsampleCall
SpecSample == InitSample /\ [][NextSample]_vars

\* C7 (sampling symmetry): Sample(stack) of a span that is not sampled,
\* followed by Unsample() of that span, returns the stack that was passed
\* to Sample and leaves the shared counter at its value before Sample.
C7_SamplingSymmetry ==
  [][(sOp.op = "Sample" /\ sOp'.op = "Unsample" /\ sOp'.span = sOp.span) =>
       /\ sOp'.ret = sOp.stack
       /\ sOp'.ret # 0
       /\ sampled_objects_size_' = sOp.before
    ]_vars

\* Sample then Unsample of one span, while another span is sampled.
C7_Witness ==
  /\ sOp.op = "Unsample"
  /\ sOp.ret # 0
  /\ sOp.before = sampled_objects_size_ + ToValue(AllocatedBytes(sOp.ret))
  /\ sampled_objects_size_ > 0
  /\ Len(sampled_objects_) > 0

\* C8 (Unsample no-op): Unsample() of a span that is not sampled returns
\* null and leaves the shared counter, the sampled-span list, sampled_ and
\* sampled_stack_ as they were.
C8_UnsampleNoOp ==
  [][(sOp'.op = "Unsample" /\ sampled_[sOp'.span] = 0) =>
       /\ sOp'.ret = 0
       /\ UNCHANGED <<sampled_, sampled_stack_, sampled_objects_,
                      sampled_objects_size_>>
    ]_vars

\* Unsample of a span that is not sampled, while two others are.
C8_Witness ==
  /\ sOp.op = "Unsample"
  /\ sOp.ret = 0
  /\ sampled_[sOp.span] = 0
  /\ Len(sampled_objects_) >= 2
  /\ sampled_objects_size_ = sOp.before

(***************************************************************************)
(* The index conversions on their own: IdxToPtr of a valid index of a      *)
(* span, then PtrToIdx of the pointer.                                     *)
(***************************************************************************)
\* The largest count BuildFreelist accepts for a span of npages pages.
MaxLegalCount(size, npages) ==
  Min(bytes_in_span(npages) \div size, (kListEnd - 1) \div IdxStep(size))
\* "Valid objects are {0, idxStep, idxStep * 2, ..., idxStep * (count - 1)}"
ValidIdx(size, count) == {k * IdxStep(size) : k \in 0..(count - 1)}
ConvPages(size) ==
  IF size <= kMultiPageSize THEN {1} ELSE {1, MaxPages, LargestSpanPages}

InitConv ==
  /\ first_page_ \in Pages
  /\ sizeclass \in 1..NumClasses
  /\ num_pages_ \in ConvPages(class_to_size(sizeclass))
  /\ allocated_ = 0 /\ freelist_ = 0 /\ embed_count_ = 0
  /\ cache_ = [i \in 0..(kCacheSize - 1) |-> 0]
  /\ cache_size_ = 0
  /\ mem = EmptyMem
  /\ pc = "new" /\ debugBuild = FALSE /\ lastOp = "none"
  /\ bsize = class_to_size(sizeclass) /\ bcount = 0
  /\ popN = 0 /\ popResult = 0 /\ batch = <<>> /\ handed = <<>>
  /\ fragResult = NoFrag
  /\ idxIn \in ValidIdx(bsize, MaxLegalCount(bsize, num_pages_))
  /\ ptrMid = 0 /\ idxOut = 0
  /\ cpc = "idx"
  /\ SampleOff
  /\ AgeOff
  /\ LockOff

ConvToPtr ==
  /\ cpc = "idx"
  /\ ptrMid' = IdxToPtr(first_page_, idxIn, bsize)
  /\ cpc' = "ptr"
  /\ UNCHANGED <<spanVars, flVars, sampleVars, ageVars, lockVars, idxIn,
                 idxOut>>

ConvToIdx ==
  /\ cpc = "ptr"
  /\ idxOut' = PtrToIdx(first_page_, ptrMid, bsize)
  /\ cpc' = "done"
  /\ UNCHANGED <<spanVars, flVars, sampleVars, ageVars, lockVars, idxIn,
                 ptrMid>>

NextConv == ConvToPtr \/ ConvToIdx
SpecConv == InitConv /\ [][NextConv]_vars

\* C1 (round trip): for every size of either addressing mode and every valid
\* index i of the span, PtrToIdx(IdxToPtr(i, size), size) = i.
C1_RoundTrip == cpc = "done" => idxOut = idxIn

\* A round trip in the large mode of an index that needs all 16 bits.
C1_Witness ==
  /\ cpc = "done"
  /\ bsize > kMultiPageSize
  /\ 2 * idxIn > kListEnd
  /\ ptrMid = start_uintptr(first_page_) + idxIn * kMultiPageAlignment
  /\ idxOut = idxIn

(***************************************************************************)
(* Reading the freelist of a state: the indices in the cache, the chain    *)
(* nodes reachable from freelist_ and their embedded entries ("We use the  *)
(* first object in that list (freelist_) as an array to push/pop from; any *)
(* subsequent objects in the list's arrays are guaranteed to be full").    *)
(***************************************************************************)
Range(seq) == {seq[i] : i \in 1..Len(seq)}
Distinct(seq) == Cardinality(Range(seq)) = Len(seq)

\* One node of the walk, on w = [head, embed, nodes, embedded].
WalkStep(w, page, size, m) ==
  IF w.head = kListEnd
    THEN w
    ELSE LET host == IdxToPtr(page, w.head, size)
         IN  [head |-> Load(m, HostSlot(host, 0)),
              embed |-> MaxEmbed(size),
              nodes |-> Append(w.nodes, w.head),
              embedded |-> w.embedded \o
                 [j \in 1..w.embed |-> Load(m, HostSlot(host, j))]]

\* At most n nodes of the walk.
RECURSIVE Walk(_, _, _, _, _)
Walk(w, page, size, m, n) ==
  IF n <= 1
    THEN WalkStep(w, page, size, m)
    ELSE LET half == Walk(w, page, size, m, n \div 2)
         IN  IF half.head # kListEnd
               THEN Walk(half, page, size, m, n - n \div 2)
               ELSE half

\* The walk of the current state; a chain of a span of bcount objects has
\* at most bcount nodes.
Chain ==
  Walk([head |-> freelist_, embed |-> embed_count_, nodes |-> <<>>,
        embedded |-> <<>>],
       first_page_, bsize, mem, bcount + 1)
\* The walk c reached the sentinel.
Closed(c) == c.head = kListEnd
CacheSeq == [j \in 1..cache_size_ |-> cache_[j - 1]]
\* Every free index of the state whose walk is c, with its multiplicity.
FreeIdxOf(c) == CacheSeq \o c.nodes \o c.embedded
\* The number of free slots of the state.
FreeCount == Len(FreeIdxOf(Chain))
\* The addresses of the indices of seq.
PtrsOf(seq) == [i \in 1..Len(seq) |-> IdxToPtr(first_page_, seq[i], bsize)]
\* seq holds every element of S once, and nothing else.
ExactlyOnce(seq, S) == Len(seq) = Cardinality(S) /\ Range(seq) = S

\* The object slots of the span: count objects of size bytes from its start.
SlotAddrs(page, size, count) ==
  {start_uintptr(page) + k * size : k \in 0..(count - 1)}

\* C2 (conservation): right after BuildFreelist(size, count) the indices in
\* the inline cache, the chain nodes reachable from freelist_ and the
\* embedded entries of the chain nodes are exactly {0, idxStep, ...,
\* idxStep * (count - 1)}: count of them, no duplicate, no gap, none equal
\* to kListEnd.
C2_Conservation ==
  lastOp = "Build" =>
    LET c == Chain
        free == FreeIdxOf(c)
    IN  /\ Closed(c)
        /\ Len(free) = bcount
        /\ Distinct(free)
        /\ Range(free) = ValidIdx(bsize, bcount)
        /\ kListEnd \notin Range(free)

\* A built span with a full cache and a chain of two nodes or more whose
\* head is partly filled.
C2_Witness ==
  /\ lastOp = "Build"
  /\ cache_size_ = kCacheSize
  /\ Len(Chain.nodes) >= 2
  /\ embed_count_ > 0
  /\ embed_count_ < MaxEmbed(bsize)
  /\ FreeCount = bcount

\* C3 (pop exhaustion): when a FreelistPopBatch returns 0, the calls since
\* BuildFreelist(size, count) have returned exactly count objects, pairwise
\* distinct, each inside the span's address range.
C3_PopExhaustion ==
  (lastOp = "Pop" /\ popResult = 0) =>
    /\ Len(handed) = bcount
    /\ Distinct(handed)
    /\ \A p \in Range(handed) :
         /\ start_uintptr(first_page_) <= p
         /\ p + bsize <= start_uintptr(first_page_) + bytes_in_span(num_pages_)

\* A span whose chain had to be followed was drained, and a further pop
\* returned 0.
C3_Witness ==
  /\ lastOp = "Pop"
  /\ popResult = 0
  /\ bcount > 2 * kCacheSize
  /\ Len(handed) = bcount

\* C4 (three disjoint states): in every state after BuildFreelist and any
\* pops, every object slot of the span is exactly once among the objects
\* handed out, the inline cache, and the chain (nodes and embedded entries).
C4_SlotStates ==
  pc = "built" =>
    LET c == Chain
    IN  /\ Closed(c)
        /\ ExactlyOnce(handed \o PtrsOf(FreeIdxOf(c)),
                       SlotAddrs(first_page_, bsize, bcount))

\* Slots in all three states at once.
C4_Witness ==
  /\ pc = "built"
  /\ Len(handed) > 0
  /\ cache_size_ > 0
  /\ freelist_ # kListEnd
  /\ embed_count_ > 0

\* C5 (counter invariant): BuildFreelist leaves allocated_ = 0, and in every
\* state after it and any pops, allocated_ plus the number of free slots
\* (cache, chain nodes, embedded entries) is count.
C5_CounterInvariant ==
  pc = "built" =>
    /\ allocated_ + FreeCount = bcount
    /\ lastOp = "Build" => allocated_ = 0

\* Objects handed out from the chain, with free slots left in it.
C5_Witness ==
  /\ pc = "built"
  /\ lastOp = "Pop"
  /\ allocated_ > kCacheSize
  /\ embed_count_ > 0
  /\ freelist_ # kListEnd

\* C6 (batch size): a FreelistPopBatch(batch, N, size) on a span with F free
\* slots returns min(N, F) objects: never more than N, and fewer than N only
\* with the cache empty and freelist_ = kListEnd on return.
C6_PopCount ==
  [][(pc = "built" /\ lastOp' = "Pop") =>
       /\ popResult' = Min(popN', FreeCount)
       /\ popResult' <= popN'
       /\ popResult' < popN' => (cache_size_' = 0 /\ freelist_' = kListEnd)
    ]_vars

\* A pop that returned some objects, but fewer than asked for.
C6_Witness ==
  /\ lastOp = "Pop"
  /\ 0 < popResult
  /\ popResult < popN
  /\ Len(handed) > popN

\* C9 (fragmentation value): for a span with a size class, capacity
\* C = bytes_in_span / object_size and L = allocated_ with 0 < L <= C,
\* Fragmentation() returns (C - L) / L, which is 0 when L = C, and leaves the
\* span as it was.
C9_FragmentationValue ==
  [][LET C == bytes_in_span(num_pages_) \div class_to_size(sizeclass)
         L == allocated_
         r == fragResult'
     IN  (lastOp' = "Fragmentation" /\ sizeclass # 0 /\ 0 < L /\ L <= C) =>
           /\ r.outcome = "returned"
           /\ r.value.den > 0
           /\ r.value.num * L = (C - L) * r.value.den
           /\ L = C => r.value = Zero
           /\ UNCHANGED spanVars
    ]_vars

\* A fragmentation that is no whole number, of a span with objects out.
C9_Witness ==
  /\ lastOp = "Fragmentation"
  /\ fragResult.outcome = "returned"
  /\ fragResult.value.den > 1
  /\ allocated_ > 1

\* C10 (degenerate guard): with no size class for the first page, or with
\* allocated_ = 0, Fragmentation() returns 0 in the production build and
\* fails its ASSERT in the debug build.
C10_FragmentationGuard ==
  (lastOp = "Fragmentation" /\ (sizeclass = 0 \/ allocated_ = 0)) =>
    IF debugBuild
      THEN fragResult.outcome = "check_failed" /\ pc = "crashed"
      ELSE fragResult = [outcome |-> "returned", value |-> Zero]
             /\ pc # "crashed"

\* The production build returned 0 for a built span with no object out.
C10_Witness ==
  /\ lastOp = "Fragmentation"
  /\ ~debugBuild
  /\ pc = "built"
  /\ sizeclass # 0
  /\ allocated_ = 0
  /\ fragResult = [outcome |-> "returned", value |-> Zero]

\* The other cases of C10 are reached as well: the debug build on either
\* condition, and the production build on a span with no size class.
C10_DebugReached ==
  /\ lastOp = "Fragmentation" /\ debugBuild /\ pc = "crashed"
  /\ sizeclass # 0 /\ allocated_ = 0
C10_NoClassReached ==
  /\ lastOp = "Fragmentation" /\ sizeclass = 0
  /\ fragResult.outcome = "returned"

(***************************************************************************)
(* Span::AverageFreelistAddedTime. "Do this computation as floating-point  *)
(* to avoid overflowing our uint64_t": the arithmetic is that of a binary  *)
(* floating-point type with round-to-nearest-even, on a timestamp of a     *)
(* fixed width. The model keeps the shape of the two types (the timestamp  *)
(* is wider than the significand, as 64 > 53) at a smaller scale.          *)
(***************************************************************************)
\* Bits of the significand of the floating-point type (53 in a double).
MantBits == 10
\* Bits of freelist_added_time_ (64 in a uint64_t).
TimeBits == 12
\* Largest number of pages of the two spans that are merged.
MaxAgePages == 3
\* The timestamps 0..MaxLowTime are given, and those within Window of the
\* first integer the floating-point type cannot hold and of the largest
\* timestamp.
MaxLowTime == 63
Window == 4

RECURSIVE BitLen(_)
\* The number of bits of n >= 0.
BitLen(n) == IF n = 0 THEN 0 ELSE 1 + BitLen(n \div 2)

\* a / d rounded to the nearest integer, a tie to the even one.
RoundHalfEven(a, d) ==
  LET q == a \div d
      r == a % d
  IN  IF 2 * r < d THEN q
      ELSE IF 2 * r > d THEN q + 1
      ELSE IF q % 2 = 0 THEN q ELSE q + 1

\* static_cast<double>(n), and the rounding of an operation whose exact
\* result is the integer n >= 0: n when it has at most MantBits bits, else
\* the nearest multiple of the unit in the last place.
ToDouble(n) ==
  LET e == BitLen(n) - MantBits
  IN  IF e <= 0 THEN n ELSE RoundHalfEven(n, 2 ^ e) * (2 ^ e)

\* The integer part of the floating-point quotient a / d of two integer
\* values (d > 0). With f the integer part of the exact quotient: from
\* MantBits bits of f on the rounded quotient is an integer; below, it is f,
\* or f + 1 when the exact quotient is within half a unit in the last place
\* of f + 1 (a tie goes to f + 1, whose significand is even).
TruncQuot(a, d) ==
  LET f == a \div d
      b == BitLen(f)
  IN  IF b >= MantBits
        THEN RoundHalfEven(a, d * (2 ^ (b - MantBits))) * (2 ^ (b - MantBits))
        ELSE IF ((f + 1) * d - a) * (2 ^ (MantBits + 1 - b)) <= d
               THEN f + 1
               ELSE f

\* The mutant of AverageFreelistAddedTime: the page counts are left out.
AverageUnweighted(t, n, ot, on) ==
  TruncQuot(ToDouble(ToDouble(t) + ToDouble(ot)), ToDouble(2))

\* Span::AverageFreelistAddedTime(other): the value of the double that is
\* cast to uint64_t, for this span's (t, n) and the other span's (ot, on).
AverageFreelistAddedTime(t, n, ot, on) ==
  TruncQuot(ToDouble(ToDouble(ToDouble(t) * ToDouble(n))
                       + ToDouble(ToDouble(ot) * ToDouble(on))),
            ToDouble(n + on))

\* static_cast<uint64_t>(d), given the integer part v of d: v when it fits,
\* and undefined behaviour (any value) when it does not.
ToTime(v) == IF v < 2 ^ TimeBits THEN {v} ELSE 0..(2 ^ TimeBits - 1)

AgeTimes ==
  (0..MaxLowTime) \cup {100, 300}
    \cup ((2 ^ MantBits - Window)..(2 ^ MantBits + Window))
    \cup ((2 ^ TimeBits - Window)..(2 ^ TimeBits - 1))
AgePages == 1..MaxAgePages

InitAge ==
  /\ first_page_ = 1 /\ sizeclass = 0
  /\ num_pages_ \in AgePages
  /\ allocated_ = 0 /\ freelist_ = 0 /\ embed_count_ = 0
  /\ cache_ = [i \in 0..(kCacheSize - 1) |-> 0]
  /\ cache_size_ = 0
  /\ mem = EmptyMem
  /\ pc = "new" /\ debugBuild = FALSE /\ lastOp = "none"
  /\ bsize = 0 /\ bcount = 0
  /\ popN = 0 /\ popResult = 0 /\ batch = <<>> /\ handed = <<>>
  /\ fragResult = NoFrag
  /\ ConvOff
  /\ SampleOff
  /\ LockOff
  /\ freelist_added_time_ \in AgeTimes
  /\ other \in [freelist_added_time : AgeTimes, num_pages : AgePages]
  /\ aOp = NoMerge

\* The span is merged with the other span, once.
AverageCall ==
  /\ aOp.op = "none"
  /\ freelist_added_time_' \in
       ToTime(AverageFreelistAddedTime(freelist_added_time_, num_pages_,
                                       other.freelist_added_time,
                                       other.num_pages))
  /\ aOp' = [op |-> "Average", t |-> freelist_added_time_, n |-> num_pages_,
             ot |-> other.freelist_added_time, on |-> other.num_pages]
  /\ UNCHANGED <<other, spanVars, flVars, convVars, sampleVars, lockVars>>

NextAge == AverageCall
SpecAge == InitAge /\ [][NextAge]_vars

\* The weighted average of the call aOp records, as the integers compute it.
ExactAverage == (aOp.t * aOp.n + aOp.ot * aOp.on) \div (aOp.n + aOp.on)
Max(a, b) == IF a > b THEN a ELSE b
\* The other span and the page counts are as before the call.
MergeFrame ==
  /\ other = [freelist_added_time |-> aOp.ot, num_pages |-> aOp.on]
  /\ num_pages_ = aOp.n

\* C11 as stated (weighted aging): AverageFreelistAddedTime(other) sets
\* this span's timestamp to (t_self * pages_self + t_other * pages_other) /
\* (pages_self + pages_other) truncated to an integer, which lies between
\* the two timestamps, and leaves the other span's timestamp and both page
\* counts unchanged.
C11_AsStated ==
  aOp.op = "Average" =>
    /\ freelist_added_time_ = ExactAverage
    /\ Min(aOp.t, aOp.ot) <= freelist_added_time_
    /\ freelist_added_time_ <= Max(aOp.t, aOp.ot)
    /\ MergeFrame

\* C11 as amended (weighted aging): the other span's timestamp and both page
\* counts are unchanged; and when t_self * pages_self + t_other * pages_other
\* is below 2^MantBits, so that every value of the computation is held
\* without rounding, this span's timestamp is the weighted average truncated
\* to an integer and lies between the two timestamps.
C11_WeightedAging ==
  aOp.op = "Average" =>
    /\ MergeFrame
    /\ (aOp.t * aOp.n + aOp.ot * aOp.on < 2 ^ MantBits) =>
         /\ freelist_added_time_ = ExactAverage
         /\ Min(aOp.t, aOp.ot) <= freelist_added_time_
         /\ freelist_added_time_ <= Max(aOp.t, aOp.ot)

\* (100, 1 page) merged with (300, 3 pages) gives 250.
C11_Witness ==
  /\ aOp = [op |-> "Average", t |-> 100, n |-> 1, ot |-> 300, on |-> 3]
  /\ freelist_added_time_ = 250

\* Two equal timestamps one above the first integer the floating-point type
\* cannot hold are merged to a smaller timestamp.
C11_RoundedBelow ==
  /\ aOp.op = "Average"
  /\ aOp.t = 2 ^ MantBits + 1 /\ aOp.ot = aOp.t
  /\ freelist_added_time_ < aOp.t

(***************************************************************************)
(* The layout BuildFreelist leaves.                                        *)
(***************************************************************************)
\* The embedded entries, in the order of the walk c, of a chain whose
\* entries were taken from the high end of (count objects of) the range:
\* the node created j-th (the head is created last) holds in its slot i the
\* index of the object count - 1 - (j - 1) * max_embed - (i - 1).
HighEndEntries(c, size, count, embed_count) ==
  LET K == Len(c.nodes)
      max_embed == MaxEmbed(size)
      OfNode(j, i) == (count - 1 - (j - 1) * max_embed - (i - 1)) * IdxStep(size)
  IN  [p \in 1..Len(c.embedded) |->
         IF p <= embed_count
           THEN OfNode(K, p)
           ELSE OfNode(K - 1 - ((p - embed_count - 1) \div max_embed),
                       1 + ((p - embed_count - 1) % max_embed))]

\* C12 (two-ended construction layout): right after BuildFreelist(size,
\* count) the inline cache holds the min(count, kCacheSize) lowest indices
\* in ascending order, with freelist_ = kListEnd and embed_count_ = 0 when
\* count <= kCacheSize; the chain nodes are the next lowest indices, each
\* linked to the node created before it (the first to kListEnd) and the last
\* created being freelist_; the embedded entries are the highest indices,
\* taken downwards from the end of the range.
C12_TwoEndedLayout ==
  lastOp = "Build" =>
    LET c == Chain
        K == Len(c.nodes)
        step == IdxStep(bsize)
    IN  /\ cache_size_ = Min(bcount, kCacheSize)
        /\ \A j \in 0..(cache_size_ - 1) : cache_[j] = j * step
        /\ bcount <= kCacheSize => (freelist_ = kListEnd /\ embed_count_ = 0)
        /\ Closed(c)
        /\ \A r \in 1..K : c.nodes[r] = (kCacheSize + K - r) * step
        /\ K > 0 => freelist_ = (kCacheSize + K - 1) * step
        /\ c.embedded = HighEndEntries(c, bsize, bcount, embed_count_)
        /\ K + Len(c.embedded) = bcount - cache_size_

\* Alignment 8, size 16, count 6: cache [0, 2, 4, 6], freelist_ = 8 with
\* the forward link kListEnd, one embedded entry 10, embed_count_ = 1.
C12_Witness ==
  /\ lastOp = "Build"
  /\ bsize = 16 /\ bcount = 6
  /\ cache_size_ = 4
  /\ cache_ = [j \in 0..(kCacheSize - 1) |-> 2 * j]
  /\ freelist_ = 8
  /\ Load(mem, HostSlot(IdxToPtr(first_page_, 8, 16), 0)) = kListEnd
  /\ embed_count_ = 1
  /\ Load(mem, HostSlot(IdxToPtr(first_page_, 8, 16), 1)) = 10

\* Chains of several nodes are laid out as well: three nodes, and two nodes
\* with the head partly filled.
C12_ThreeNodes ==
  /\ lastOp = "Build"
  /\ Len(Chain.nodes) = 3
C12_PartHead ==
  /\ lastOp = "Build"
  /\ Len(Chain.nodes) = 2
  /\ 0 < embed_count_ /\ embed_count_ < MaxEmbed(bsize)

(***************************************************************************)
(* The largest spans: one page of objects of the small mode, and           *)
(* LargestSpanPages pages of objects of the large mode, built with as many *)
(* objects as fit or as ASSERT(count * idxStep < kListEnd) lets pass.      *)
(***************************************************************************)
Capacity(size, npages) == bytes_in_span(npages) \div size
WideCounts(size, npages) ==
  {c \in (IF Capacity(size, npages) <= MaxWideCount
            THEN (Capacity(size, npages) - WideWindow)..Capacity(size, npages)
            ELSE 1..MaxCount) :
     LegalCount(size, npages, c)}

InitWide ==
  /\ first_page_ \in Pages
  /\ sizeclass \in 1..NumClasses
  /\ num_pages_ = (IF class_to_size(sizeclass) <= kMultiPageSize
                     THEN 1 ELSE LargestSpanPages)
  /\ \E f \in FieldsBefore :
       /\ allocated_ = f.allocated
       /\ freelist_ = f.freelist
       /\ embed_count_ = f.embed_count
       /\ cache_ = f.cache
       /\ cache_size_ = f.cache_size
  /\ mem = EmptyMem
  /\ pc = "new" /\ debugBuild = FALSE /\ lastOp = "none"
  /\ bsize = 0 /\ bcount = 0
  /\ popN = 0 /\ popResult = 0 /\ batch = <<>> /\ handed = <<>>
  /\ fragResult = NoFrag
  /\ ConvOff
  /\ SampleOff
  /\ AgeOff
  /\ LockOff

BuildWide == BuildOf(WideCounts(class_to_size(sizeclass), num_pages_))
NextWide == BuildWide \/ Pop
SpecWide == InitWide /\ [][NextWide]_vars

\* The cells of the span's objects that hold the value v.
CellsHolding(v) == {a \in DOMAIN mem : mem[a] = v}

\* C13 (index width and sentinel): for a span built under count * idxStep <
\* kListEnd, in either addressing mode, the exclusive end index count *
\* idxStep is not changed by the cast to ObjIdx and is not kListEnd; every
\* index in the inline cache, in freelist_ (of a non-empty chain) and in an
\* embedded entry is idxStep * k for a k < count, computed without
\* wrap-around, and below kListEnd; right after BuildFreelist all count of
\* them are stored; and kListEnd is held only by freelist_ of an empty chain
\* and by the forward link (slot 0) of an object.
C13_IndexWidth ==
  pc = "built" =>
    LET c == Chain
        free == FreeIdxOf(c)
        step == IdxStep(bsize)
    IN  /\ ToObjIdx(bcount * step) = bcount * step
        /\ bcount * step # kListEnd
        /\ Closed(c)
        /\ Range(free) \subseteq ValidIdx(bsize, bcount)
        /\ \A i \in Range(free) : i + step <= bcount * step /\ i < kListEnd
        /\ lastOp = "Build" => Len(free) = bcount
        /\ (freelist_ = kListEnd) <=> (c.nodes = <<>>)
        /\ CellsHolding(kListEnd) \subseteq
             {HostSlot(p, 0) : p \in SlotAddrs(first_page_, bsize, bcount)}

\* A span of LargestSpanPages pages built with the largest count the ASSERT
\* lets pass, fewer than fit it: the indices need all 16 bits.
C13_Witness ==
  /\ lastOp = "Build"
  /\ bsize > kMultiPageSize
  /\ bcount < Capacity(bsize, num_pages_)
  /\ ~LegalCount(bsize, num_pages_, bcount + 1)
  /\ 2 * (bcount - 1) * IdxStep(bsize) > kListEnd
  /\ (bcount - 1) * IdxStep(bsize) \in Range(FreeIdxOf(Chain))

(***************************************************************************)
(* The chain nodes and their slots.                                        *)
(***************************************************************************)
\* The cells of the slots 1..n of the object of index idx.
EntryCells(idx, n) ==
  {HostSlot(IdxToPtr(first_page_, idx, bsize), j) : j \in 1..n}
\* The cells of cs were written, and hold indices of objects of the span
\* that were not handed out.
HoldFree(cs) ==
  /\ cs \subseteq DOMAIN mem
  /\ {mem[a] : a \in cs} \subseteq ValidIdx(bsize, bcount)
  /\ {IdxToPtr(first_page_, mem[a], bsize) : a \in cs} \cap Range(handed) = {}

\* C14 (full-tail invariant): after BuildFreelist and any pops, every chain
\* node other than freelist_ holds max_embed = size / sizeof(ObjIdx) - 1
\* embedded entries, all slots 1..max_embed written with indices of free
\* objects, no two the same; freelist_ holds embed_count_ <= max_embed of
\* them in its slots 1..embed_count_, and right after BuildFreelist none
\* above.
C14_FullTail ==
  pc = "built" =>
    LET c == Chain
        K == Len(c.nodes)
        max_embed == MaxEmbed(bsize)
        tail == UNION {EntryCells(c.nodes[r], max_embed) : r \in 2..K}
    IN  /\ Closed(c)
        /\ HoldFree(tail)
        /\ Cardinality({mem[a] : a \in tail}) = (K - 1) * max_embed \/ K = 0
        /\ K > 0 =>
             /\ embed_count_ <= max_embed
             /\ HoldFree(EntryCells(freelist_, embed_count_))
             /\ lastOp = "Build" =>
                  (EntryCells(freelist_, max_embed)
                     \ EntryCells(freelist_, embed_count_)) \cap DOMAIN mem = {}

\* A pop has handed out the first node and follows the chain into the
\* second, of which it has taken an entry; a further node is behind it.
C14_Witness ==
  /\ lastOp = "Pop"
  /\ freelist_ # kListEnd
  /\ Len(Chain.nodes) >= 2
  /\ IdxToPtr(first_page_, freelist_ + IdxStep(bsize), bsize) \in Range(handed)
  /\ embed_count_ < MaxEmbed(bsize)

\* The cell at address a lies inside one of the span's bcount objects.
InsideObject(a) ==
  LET off == a - start_uintptr(first_page_)
  IN  /\ 0 <= off
      /\ off \div bsize < bcount
      /\ (off % bsize) + kObjIdxBytes <= bsize

\* C15 (capacity bounds): in every state after BuildFreelist and any pops,
\* cache_size_ <= kCacheSize and embed_count_ <= size / sizeof(ObjIdx) - 1;
\* every cell that was written lies inside an object of the span, and so
\* do the cells the next pop reads, freelist_'s slot 0 and its slot
\* embed_count_, which were written.
C15_CapacityBounds ==
  pc = "built" =>
    /\ 0 <= cache_size_ /\ cache_size_ <= kCacheSize
    /\ 0 <= embed_count_ /\ embed_count_ <= bsize \div kObjIdxBytes - 1
    /\ \A a \in DOMAIN mem : InsideObject(a)
    /\ freelist_ # kListEnd =>
         LET host == IdxToPtr(first_page_, freelist_, bsize)
         IN  \A j \in {0, embed_count_} :
               /\ InsideObject(HostSlot(host, j))
               /\ HostSlot(host, j) \in DOMAIN mem

\* The cache is full and so is the head node, whose last slot ends with the
\* object.
C15_Witness ==
  /\ pc = "built"
  /\ cache_size_ = kCacheSize
  /\ freelist_ # kListEnd
  /\ embed_count_ = bsize \div kObjIdxBytes - 1
  /\ HostSlot(IdxToPtr(first_page_, freelist_, bsize), embed_count_)
       + kObjIdxBytes = IdxToPtr(first_page_, freelist_, bsize) + bsize
  /\ HostSlot(IdxToPtr(first_page_, freelist_, bsize), embed_count_)
       \in DOMAIN mem

\* The objects of the inline cache.
CachePtrs == {IdxToPtr(first_page_, cache_[j], bsize) : j \in 0..(cache_size_ - 1)}

\* C16 (cache-first consumption): the first min(N, cache_size_) objects of
\* a FreelistPopBatch are objects of the inline cache, and cache_size_
\* decreases by as many; a call with N <= cache_size_ returns N objects, so
\* all of them from the cache, and leaves freelist_, embed_count_ and the
\* contents of the chain nodes unchanged.
C16_CacheFirst ==
  [][(pc = "built" /\ lastOp' = "Pop") =>
       LET fromCache == Min(popN', cache_size_)
       IN  /\ popResult' >= fromCache
           /\ Cardinality({batch'[i] : i \in 1..fromCache}) = fromCache
           /\ {batch'[i] : i \in 1..fromCache} \subseteq CachePtrs
           /\ cache_size_' = cache_size_ - fromCache
           /\ popN' <= cache_size_ =>
                /\ popResult' = popN'
                /\ UNCHANGED <<freelist_, embed_count_, mem>>
    ]_vars

\* A pop of fewer objects than the cache held, with a chain behind it.
C16_Witness ==
  /\ lastOp = "Pop"
  /\ popResult = popN
  /\ cache_size_ > 0
  /\ Len(handed) = popN
  /\ freelist_ # kListEnd
  /\ embed_count_ > 0

\* A pop that emptied the cache and went on into the chain.
C16_IntoChain ==
  /\ lastOp = "Pop"
  /\ cache_size_ = 0
  /\ Len(handed) = popResult
  /\ popResult > kCacheSize

\* The walk of the chain that starts at head, whose first node holds embed
\* entries, in the memory m.
ChainFrom(head, embed, m) ==
  Walk([head |-> head, embed |-> embed, nodes |-> <<>>, embedded |-> <<>>],
       first_page_, bsize, m, bcount + 1)

\* The object of index idx, and the place of x in the sequence b of
\* distinct elements.
NodePtr(idx) == IdxToPtr(first_page_, idx, bsize)
Pos(b, x) == CHOOSE i \in 1..Len(b) : b[i] = x

RECURSIVE FirstNodes(_, _)
\* The first n nodes, or all of them, of the chain that starts at head.
FirstNodes(head, n) ==
  IF n = 0 \/ head = kListEnd
    THEN <<>>
    ELSE <<head>> \o FirstNodes(Load(mem, HostSlot(NodePtr(head), 0)), n - 1)
\* The nodes of ns, by their place in it, that are in the batch b.
NodesOut(ns, b) == {r \in 1..Len(ns) : NodePtr(ns[r]) \in Range(b)}
\* Every entry of the cells cs is in the batch b before the place p.
EntriesBefore(cs, b, p) ==
  \A a \in cs : \E i \in 1..(p - 1) : b[i] = NodePtr(Load(mem, a))
\* The batch b against the chain before the pop, of which ns are the first
\* nodes, one more than b could hold, and `out` those handed out; c2 is the
\* walk after the pop and head is freelist_ after the pop.
HostLastFor(ns, b, out, c2, head) ==
  /\ \A r \in out :
       /\ EntriesBefore(EntryCells(ns[r], IF r = 1 THEN embed_count_
                                                   ELSE MaxEmbed(bsize)),
                        b, Pos(b, NodePtr(ns[r])))
       /\ head \notin {ns[q] : q \in 1..r}
  /\ out = 1..Cardinality(out)
  /\ head = (IF Cardinality(out) = Len(ns)
               THEN kListEnd ELSE ns[Cardinality(out) + 1])
  /\ {NodePtr(n) : n \in Range(c2.nodes)} \cap Range(handed \o b) = {}
HostLastStep(ns, b, c2, head) == HostLastFor(ns, b, NodesOut(ns, b), c2, head)

\* C17 (host-last ordering): when a FreelistPopBatch hands out a chain node,
\* every embedded entry the node held is earlier in the batch, and
\* freelist_ has moved past the node: to the first node that was not handed
\* out, or to kListEnd; and after the pop no object handed out is a node of
\* the chain freelist_ leads to.
C17_HostLast ==
  [][(pc = "built" /\ lastOp' = "Pop") =>
       HostLastStep(FirstNodes(freelist_, Len(batch') + 1), batch',
                    ChainFrom(freelist_', embed_count_', mem'), freelist_')
    ]_vars

\* A pop handed out a node after the entries it held, and another node is
\* the head now.
C17_Witness ==
  /\ lastOp = "Pop"
  /\ freelist_ # kListEnd
  /\ NodePtr(freelist_ + IdxStep(bsize)) \in Range(batch)
  /\ Pos(batch, NodePtr(freelist_ + IdxStep(bsize))) > 1
  /\ NodePtr(freelist_ + IdxStep(bsize)) \notin CachePtrs
  /\ embed_count_ = MaxEmbed(bsize)

(***************************************************************************)
(* The sampling state of the spans.                                        *)
(***************************************************************************)
\* The number of times s is in the list.
Occurrences(list, s) == Cardinality({i \in 1..Len(list) : list[i] = s})
\* Every span is sampled iff it has a stack iff it is in the list, and once.
Consistent(sampled, stack, list) ==
  \A s \in Spans :
    /\ sampled[s] \in {0, 1}
    /\ (sampled[s] = 1) <=> (stack[s] # 0)
    /\ (sampled[s] = 1) <=> (s \in Range(list))
    /\ Occurrences(list, s) = sampled[s]
\* after is before without its element at one place, which holds s.
RemovedOnce(before, after, s) ==
  \E i \in 1..Len(before) :
    /\ before[i] = s
    /\ after = SubSeq(before, 1, i - 1) \o SubSeq(before, i + 1, Len(before))

\* C18 (sampling state consistency): after every Sample (of a span that is
\* not sampled) and every Unsample, each span has sampled_ = 1 iff its
\* sampled_stack_ is not null iff it is in Static::sampled_objects_, where
\* it is once; Sample puts the span at the head of the list, before the
\* members it had, and Unsample of a sampled span takes exactly that span
\* out and leaves the other members in their order.
C18_SamplingConsistency ==
  [][/\ Consistent(sampled_, sampled_stack_, sampled_objects_)
     /\ Consistent(sampled_', sampled_stack_', sampled_objects_')
     /\ sOp'.op = "Sample" =>
          /\ sampled_'[sOp'.span] = 1
          /\ sampled_stack_'[sOp'.span] = sOp'.stack
          /\ Head(sampled_objects_') = sOp'.span
          /\ Tail(sampled_objects_') = sampled_objects_
     /\ (sOp'.op = "Unsample" /\ sampled_[sOp'.span] = 1) =>
          /\ sampled_'[sOp'.span] = 0
          /\ RemovedOnce(sampled_objects_, sampled_objects_', sOp'.span)
     /\ \A s \in Spans :
          s # sOp'.span =>
            (sampled_'[s] = sampled_[s] /\ sampled_stack_'[s] = sampled_stack_[s])
    ]_vars

\* Three spans were sampled and the one in the middle of the list was
\* unsampled.
C18_Witness ==
  /\ sOp.op = "Unsample"
  /\ sOp.ret # 0
  /\ Len(sampled_objects_) = 2
  /\ \E a, b \in Spans :
       /\ sampled_objects_ = <<a, b>>
       /\ (a < sOp.span /\ sOp.span < b) \/ (b < sOp.span /\ sOp.span < a)

(***************************************************************************)
(* Sample and Unsample called by several threads, each call made with      *)
(* pageheap_lock held ("writes to sampled_objects_size_ guarded by         *)
(* pageheap_lock"). A call is four steps: the lock is taken; the span's    *)
(* fields and the list are updated; LossyAdd loads the counter; LossyAdd   *)
(* stores the sum; and then the lock is released.                          *)
(***************************************************************************)
\* The values of sampled_objects_size_ before the first call.
CounterStarts == {0, 1000}

InitLock ==
  /\ first_page_ = 1 /\ num_pages_ = 1 /\ sizeclass = 0
  /\ allocated_ = 0 /\ freelist_ = 0 /\ embed_count_ = 0
  /\ cache_ = [i \in 0..(kCacheSize - 1) |-> 0]
  /\ cache_size_ = 0
  /\ mem = EmptyMem
  /\ pc = "new" /\ debugBuild = FALSE /\ lastOp = "none"
  /\ bsize = 0 /\ bcount = 0
  /\ popN = 0 /\ popResult = 0 /\ batch = <<>> /\ handed = <<>>
  /\ fragResult = NoFrag
  /\ ConvOff
  /\ AgeOff
  /\ sampled_ = [s \in Spans |-> 0]
  /\ sampled_stack_ = [s \in Spans |-> 0]
  /\ sampled_objects_ = <<>>
  /\ size0 \in CounterStarts
  /\ sampled_objects_size_ = size0
  /\ sOp = NoCall
  /\ pageheap_lock = 0
  /\ thr = [t \in Threads |-> Idle]

LockFrame == UNCHANGED <<spanVars, flVars, convVars, ageVars, size0>>

\* Thread t takes pageheap_lock to call Sample(st) on the span s, which it
\* finds not sampled; no span holds the stack record st.
LockForSample(t) ==
  /\ thr[t].pc = "idle"
  /\ pageheap_lock = 0
  /\ \E s \in Spans, st \in Stacks :
       /\ sampled_[s] = 0
       /\ \A x \in Spans : sampled_stack_[x] # st
       /\ thr' = [thr EXCEPT ![t] = [pc |-> "Sample", span |-> s,
                                     stack |-> st, value |-> 0]]
  /\ pageheap_lock' = t
  /\ UNCHANGED sampleVars
  /\ LockFrame

\* Thread t takes pageheap_lock to call Unsample() on the span s.
LockForUnsample(t) ==
  /\ thr[t].pc = "idle"
  /\ pageheap_lock = 0
  /\ \E s \in Spans :
       thr' = [thr EXCEPT ![t] = [pc |-> "Unsample", span |-> s,
                                  stack |-> 0, value |-> 0]]
  /\ pageheap_lock' = t
  /\ UNCHANGED sampleVars
  /\ LockFrame

\* Sample up to the call of LossyAdd: sampled_, sampled_stack_, the list.
SampleFields(t) ==
  /\ thr[t].pc = "Sample"
  /\ LET r == Sample(thr[t].span, thr[t].stack, Shared)
     IN  /\ sampled_' = r.sampled
         /\ sampled_stack_' = r.stack
         /\ sampled_objects_' = r.list
  /\ thr' = [thr EXCEPT ![t].pc = "SampleLoad"]
  /\ sOp' = [op |-> "Sample", span |-> thr[t].span, stack |-> thr[t].stack,
             ret |-> 0, before |-> sampled_objects_size_]
  /\ UNCHANGED <<sampled_objects_size_, pageheap_lock>>
  /\ LockFrame

\* Unsample up to the call of LossyAdd: the early return, or sampled_,
\* sampled_stack_ (kept in the local `stack`) and the list.
UnsampleFields(t) ==
  /\ thr[t].pc = "Unsample"
  /\ LET r == Unsample(thr[t].span, Shared)
     IN  /\ sampled_' = r.sampled
         /\ sampled_stack_' = r.stack
         /\ sampled_objects_' = r.list
         /\ thr' = [thr EXCEPT ![t].pc = IF sampled_[thr[t].span] = 0
                                           THEN "Return" ELSE "UnsampleLoad",
                               ![t].stack = r.ret]
         /\ sOp' = [op |-> "Unsample", span |-> thr[t].span, stack |-> 0,
                    ret |-> r.ret, before |-> sampled_objects_size_]
  /\ UNCHANGED <<sampled_objects_size_, pageheap_lock>>
  /\ LockFrame

\* LossyAdd: value_.load().
CounterLoad(t) ==
  /\ thr[t].pc \in {"SampleLoad", "UnsampleLoad"}
  /\ thr' = [thr EXCEPT ![t].value = sampled_objects_size_,
                        ![t].pc = IF thr[t].pc = "SampleLoad"
                                    THEN "SampleStore" ELSE "UnsampleStore"]
  /\ UNCHANGED <<sampleVars, pageheap_lock>>
  /\ LockFrame

\* LossyAdd: value_.store(loaded + val), val being what the call computes
\* from its stack record.
CounterStore(t) ==
  /\ thr[t].pc \in {"SampleStore", "UnsampleStore"}
  /\ sampled_objects_size_' =
       (IF thr[t].pc = "SampleStore"
          THEN Sample(thr[t].span, thr[t].stack,
                      [Shared EXCEPT !.size = thr[t].value]).size
          ELSE Unsample(thr[t].span,
                        [sampled |-> [sampled_ EXCEPT ![thr[t].span] = 1],
                         stack |-> [sampled_stack_ EXCEPT
                                      ![thr[t].span] = thr[t].stack],
                         list |-> sampled_objects_,
                         size |-> thr[t].value,
                         ret |-> 0]).size)
  /\ thr' = [thr EXCEPT ![t].pc = "Return"]
  /\ UNCHANGED <<sampled_, sampled_stack_, sampled_objects_, sOp,
                 pageheap_lock>>
  /\ LockFrame

\* The call has returned and the thread releases pageheap_lock.
Unlock(t) ==
  /\ thr[t].pc = "Return"
  /\ pageheap_lock' = 0
  /\ thr' = [thr EXCEPT ![t] = Idle]
  /\ UNCHANGED sampleVars
  /\ LockFrame

NextLock ==
  \E t \in Threads :
    \/ LockForSample(t)
    \/ LockForUnsample(t)
    \/ SampleFields(t)
    \/ UnsampleFields(t)
    \/ CounterLoad(t)
    \/ CounterStore(t)
    \/ Unlock(t)
SpecLock == InitLock /\ [][NextLock]_vars

RECURSIVE SampledBytes(_)
\* The sum of the byte estimates of the stack records of the spans of S
\* that are sampled.
SampledBytes(S) ==
  IF S = {} THEN 0
  ELSE LET s == CHOOSE x \in S : TRUE
       IN  (IF sampled_[s] = 1
              THEN ToValue(AllocatedBytes(sampled_stack_[s])) ELSE 0)
             + SampledBytes(S \ {s})

\* C19 (counter accounting under the lock): with every Sample and Unsample
\* made under pageheap_lock, whenever no call is in progress
\* sampled_objects_size_ is its initial value plus the byte estimates of
\* the stack records of the sampled spans, and so the initial value when no
\* span is sampled; and no two threads are in a call at once.
C19_CounterAccounting ==
  /\ Cardinality({t \in Threads : thr[t].pc # "idle"}) <= 1
  /\ pageheap_lock = 0 =>
       /\ \A t \in Threads : thr[t].pc = "idle"
       /\ sampled_objects_size_ = size0 + SampledBytes(Spans)
       /\ (\A s \in Spans : sampled_[s] = 0) => sampled_objects_size_ = size0

\* Calls have been made from a counter that did not start at 0, the last an
\* Unsample that left no span sampled.
C19_Witness ==
  /\ pageheap_lock = 0
  /\ size0 > 0
  /\ sOp.op = "Unsample" /\ sOp.ret # 0
  /\ sOp.before = size0 + ToValue(AllocatedBytes(sOp.ret))
  /\ \A s \in Spans : sampled_[s] = 0
  /\ sampled_objects_size_ = size0

\* An Unsample is between the load and the store of LossyAdd while other
\* spans are sampled; and two spans are sampled with no call in progress.
C19_MidCall ==
  \E t \in Threads :
    /\ thr[t].pc = "UnsampleStore"
    /\ sampled_objects_ # <<>>
C19_TwoSampled ==
  /\ pageheap_lock = 0
  /\ Len(sampled_objects_) = 2
  /\ sampled_objects_size_ > size0

(***************************************************************************)
(* The objects a span hands out.                                           *)
(***************************************************************************)
\* C20 (non-overlapping objects): for the sizes that are multiples of the
\* alignment of their mode, BuildFreelist's index step and IdxToPtr's shift
\* are of the same mode (step * 2^shift = size); the objects handed out of
\* a span built with BuildFreelist(size, count) are among span_base + k *
\* size for k < count, each once, and all of them when the span is empty;
\* and the byte ranges [p, p + size) of an object of the last batch and of
\* any other object handed out are disjoint.
C20_NonOverlapping ==
  pc = "built" =>
    /\ bsize % (2 ^ IdxShift(bsize)) = 0
    /\ IdxStep(bsize) * (2 ^ IdxShift(bsize)) = bsize
    /\ Range(handed) \subseteq SlotAddrs(first_page_, bsize, bcount)
    /\ Distinct(handed)
    /\ \A p \in Range(batch) :
         \A q \in Range(handed) : p = q \/ p + bsize <= q \/ q + bsize <= p
    /\ (cache_size_ = 0 /\ freelist_ = kListEnd) =>
         Range(handed) = SlotAddrs(first_page_, bsize, bcount)

\* A span of the large mode, with a chain, was emptied.
C20_Witness ==
  /\ lastOp = "Pop"
  /\ bsize > kMultiPageSize
  /\ bcount > 2 * kCacheSize
  /\ cache_size_ = 0 /\ freelist_ = kListEnd
  /\ Len(handed) = bcount
  /\ popResult > 0

\* A span of objects of kMultiPageSize bytes, the largest of the small
\* mode, was emptied.
C20_Boundary ==
  /\ lastOp = "Pop"
  /\ bsize = kMultiPageSize
  /\ bcount > 2 * kCacheSize
  /\ cache_size_ = 0 /\ freelist_ = kListEnd
  /\ Len(handed) = bcount

=============================================================================
